---- MODULE Spec2Model ----
(***************************************************************************)
(* Model of sample-poker-game/poker_app.py: a Streamlit script that deals  *)
(* two 5-card hands, accepts a photographed human card, asks a language    *)
(* model for the opposing card, scores the round and announces the game    *)
(* result when both hands are empty.                                       *)
(*                                                                         *)
(* One script run with an image is split at its only blocking external     *)
(* call that sits between two mutations (ai_decision, line 256): the part  *)
(* before it is RunWithImage, the part after it is AgentReturns.           *)
(***************************************************************************)
EXTENDS Integers, Sequences, FiniteSets, TLC

VARIABLES
    deck,             \* deal_cards: the local list `deck` (line 46)
    shuffle_i,        \* random.shuffle: index still to be swapped (0 = done)
    human_cards,      \* st.session_state.human_cards
    ai_cards,         \* st.session_state.ai_cards
    table_cards,      \* st.session_state.table_cards
    scores,           \* st.session_state.scores
    pc,               \* position of the script run of this session
    recognized_card,  \* local `recognized_card` of the run in flight
    ui,               \* notices emitted by the most recent script run
    temp_image,       \* the card shown in the file /tmp/temp_card_image.png
    session_state     \* st.session_state of each of two concurrent sessions

vars == <<deck, shuffle_i, human_cards, ai_cards, table_cards, scores,
          pc, recognized_card, ui, temp_image, session_state>>

----------------------------------------------------------------------------
(* Bounds *)

\* number of shuffle outcomes the game specification starts from
NumSeeds == 1

\* random.shuffle, deal specification: how far below i the swap partner j
\* may be drawn (j in i-MaxSwapDist .. i)
MaxSwapDist == 1

\* two sessions: the photographs a session may present show one of the
\* first NumImages card values
NumImages == 2

\* two sessions: submissions a session may have accepted
MaxSessionRounds == 1

----------------------------------------------------------------------------
(* Constants of the program *)

CARD_VALUES == <<"2", "3", "4", "5", "6", "7", "8", "9", "J", "Q", "K", "A">>

HandSize == 5

\* labels the card recognizer may return that are not card values
NonEnumLabels == {"10", "Joker"}

NoCard == "none"

Range(s) == {s[i] : i \in 1..Len(s)}

CardSet == Range(CARD_VALUES)

----------------------------------------------------------------------------
(* Python list helpers *)

\* list.remove(x) written as pop(0): the first element goes, whatever x is
Remove_head(s, x) == IF s = <<>> THEN <<>> ELSE Tail(s)

\* list.remove(x): delete the first occurrence of x
RECURSIVE Remove(_, _)
Remove(s, x) ==
    IF s = <<>> THEN <<>>
    ELSE IF Head(s) = x THEN Tail(s)
    ELSE <<Head(s)>> \o Remove(Tail(s), x)

\* list.index(x): 0-based position of the first occurrence of x
Index(s, x) == (CHOOSE i \in 1..Len(s) : s[i] = x /\ \A j \in 1..(i-1) : s[j] # x) - 1

\* s[start:end] with Python's treatment of a negative start
PySlice(s, start, end) ==
    LET st0 == IF start < 0 THEN start + Len(s) ELSE start
        st1 == IF st0 < 0 THEN 0 ELSE st0
        en  == IF end > Len(s) THEN Len(s) ELSE end
    IN  SubSeq(s, st1 + 1, en)

\* x[i], x[j] = x[j], x[i]   (1-based positions)
Swap(s, i, j) == [k \in 1..Len(s) |-> IF k = i THEN s[j] ELSE IF k = j THEN s[i] ELSE s[k]]

----------------------------------------------------------------------------
(* deal_cards *)

\* deal_cards with the hands sliced one position early: 4 and 6 cards,
\* still 10 distinct values, so the duplicate check does not notice
deal_cards_offbyone(d) ==
    LET h == SubSeq(d, 1, HandSize - 1)
        a == SubSeq(d, HandSize, 2 * HandSize)
    IN  IF Cardinality(Range(h \o a)) # 10
        THEN [ok |-> FALSE, human |-> <<>>, ai |-> <<>>]
        ELSE [ok |-> TRUE, human |-> h, ai |-> a]

\* deal_cards with the boundary between the hands one position late: 6 and
\* 4 cards, again 10 distinct values
deal_cards_sixFour(d) ==
    LET h == SubSeq(d, 1, HandSize + 1)
        a == SubSeq(d, HandSize + 2, 2 * HandSize)
    IN  IF Cardinality(Range(h \o a)) # 10
        THEN [ok |-> FALSE, human |-> <<>>, ai |-> <<>>]
        ELSE [ok |-> TRUE, human |-> h, ai |-> a]

\* lines 50-57: slice the shuffled deck, verify, return
deal_cards(d) ==
    LET h == SubSeq(d, 1, HandSize)
        a == SubSeq(d, HandSize + 1, 2 * HandSize)
    IN  IF Cardinality(Range(h \o a)) # 10
        THEN [ok |-> FALSE, human |-> <<>>, ai |-> <<>>]
        ELSE [ok |-> TRUE, human |-> h, ai |-> a]

\* a shuffle outcome per seed: the stride-5 walk over CARD_VALUES from offset seed
ShuffledDeck(seed) ==
    [k \in 1..Len(CARD_VALUES) |-> CARD_VALUES[(((k - 1) * 5 + seed) % Len(CARD_VALUES)) + 1]]

GameDecks == {ShuffledDeck(s) : s \in 0..(NumSeeds - 1)}

----------------------------------------------------------------------------
(* ai_decision: the streamed reply and the extraction of the decision      *)
(*                                                                         *)
(* full_response is modelled as a sequence of lexical pieces: an opening   *)
(* brace, a closing brace, free text, or one key/value member written with *)
(* double quotes, single quotes or no quotes.                              *)

LB == [k |-> "lb", q |-> "", key |-> "", v |-> ""]
RB == [k |-> "rb", q |-> "", key |-> "", v |-> ""]
TXT == [k |-> "txt", q |-> "", key |-> "", v |-> ""]
Member(quote, name, val) == [k |-> "member", q |-> quote, key |-> name, v |-> val]

\* str.rfind: 0-based position of the last occurrence, -1 when absent
RFind(s, kind) ==
    IF \E i \in 1..Len(s) : s[i].k = kind
    THEN (CHOOSE i \in 1..Len(s) : s[i].k = kind /\ \A j \in (i+1)..Len(s) : s[j].k # kind) - 1
    ELSE -1

\* lines 178-180: text from the last "{" up to and including the last "}"
ExtractJson(full_response) ==
    LET json_start == RFind(full_response, "lb")
        json_end == RFind(full_response, "rb") + 1
    IN  PySlice(full_response, json_start, json_end)

\* line 183: json_str.replace("'", '"')
ReplaceQuotes(json_str) ==
    [i \in 1..Len(json_str) |->
        IF json_str[i].q = "sq" THEN [json_str[i] EXCEPT !.q = "dq"] ELSE json_str[i]]

\* json.loads succeeds on one object whose members are all double-quoted
JsonLoadsOk(json_str) ==
    /\ Len(json_str) >= 2
    /\ json_str[1].k = "lb"
    /\ json_str[Len(json_str)].k = "rb"
    /\ \A i \in 2..(Len(json_str) - 1) : json_str[i].k = "member" /\ json_str[i].q = "dq"

\* the keys of the decoded object
JsonKeys(json_str) == {json_str[i].key : i \in 2..(Len(json_str) - 1)}

\* response_json[name]: a repeated key keeps its last value
JsonGet(json_str, name) ==
    LET i == CHOOSE i \in 2..(Len(json_str) - 1) :
                 /\ json_str[i].key = name
                 /\ \A j \in (i+1)..(Len(json_str) - 1) : json_str[j].key # name
    IN  json_str[i].v

\* ai_decision that trusts the model's card without looking at the hand
ai_decision_unchecked(full_response, hand) ==
    LET json_str == ReplaceQuotes(ExtractJson(full_response))
    IN  IF ~JsonLoadsOk(json_str) \/ "card" \notin JsonKeys(json_str)
        THEN {[card |-> c, note |-> "err_parse"] : c \in Range(hand)}
        ELSE {[card |-> JsonGet(json_str, "card"), note |-> "none"]}

\* ai_decision whose fallback draws from CARD_VALUES instead of the hand
ai_decision_fallbackAny(full_response, hand) ==
    LET json_str == ReplaceQuotes(ExtractJson(full_response))
    IN  IF ~JsonLoadsOk(json_str) \/ "card" \notin JsonKeys(json_str)
        THEN {[card |-> c, note |-> "err_parse"] : c \in CardSet}
        ELSE LET chosen_card == JsonGet(json_str, "card")
             IN  IF chosen_card \in Range(hand)
                 THEN {[card |-> chosen_card, note |-> "none"]}
                 ELSE {[card |-> c, note |-> "warn_ai_invalid"] : c \in CardSet}

\* lines 176-201: the cards ai_decision may return for a complete reply,
\* each with the notice it emits; random.choice is any member of the hand
ai_decision(full_response, hand) ==
    LET json_str == ReplaceQuotes(ExtractJson(full_response))
    IN  IF ~JsonLoadsOk(json_str) \/ "card" \notin JsonKeys(json_str)
        THEN {[card |-> c, note |-> "err_parse"] : c \in Range(hand)}
        ELSE LET chosen_card == JsonGet(json_str, "card")
             IN  IF chosen_card \in Range(hand)
                 THEN {[card |-> chosen_card, note |-> "none"]}
                 ELSE {[card |-> c, note |-> "warn_ai_invalid"] : c \in Range(hand)}

\* values the model may name: any card value or something that is no card
ReplyCards == CardSet \cup {"10"}

\* the ways a reply can carry the card field c: the bare object, the object
\* in single quotes inside other text, and a second object after a first
CardReply(shape, c) ==
    IF shape = 1 THEN <<LB, Member("dq", "card", c), RB>>
    ELSE IF shape = 2 THEN <<TXT, LB, Member("sq", "card", c), RB, TXT>>
    ELSE <<LB, Member("dq", "card", "A"), RB, TXT, LB, Member("dq", "card", c), RB>>

ReplyShapes == 1..3

\* replies that carry a card field
CardReplies == {CardReply(shape, c) : shape \in ReplyShapes, c \in ReplyCards}

\* replies from which no decision can be decoded, or that lack the field
BrokenReplies ==
    { <<>>,
      <<TXT>>,
      <<RB, LB>>,
      <<LB, RB>>,
      <<LB, Member("dq", "rank", "A"), RB>>,
      <<LB, Member("none", "card", "A"), RB>>,
      <<LB, Member("dq", "card", "A")>>,
      <<LB, Member("dq", "card", "A"), RB, RB>>,
      <<LB, LB, Member("dq", "card", "A"), RB, RB>>,
      <<LB, Member("dq", "card", "A"), TXT, RB>> }

Replies == CardReplies \cup BrokenReplies

----------------------------------------------------------------------------
(* Round and game outcome *)

\* lines 263-270 with the comparison reversed
RoundWinner_reversed(human_value, ai_value) ==
    IF human_value < ai_value THEN "human"
    ELSE IF ai_value < human_value THEN "ai"
    ELSE "tie"

\* lines 263-270: who holds the strictly greater value
RoundWinner(human_value, ai_value) ==
    IF human_value > ai_value THEN "human"
    ELSE IF ai_value > human_value THEN "ai"
    ELSE "tie"

\* lines 264, 267 without the increment of the AI's counter
AddWin_noAi(sc, winner) ==
    IF winner = "human" THEN [sc EXCEPT !.human = @ + 1] ELSE sc

\* lines 264, 267: the winner's counter goes up by one
AddWin(sc, winner) ==
    IF winner = "human" THEN [sc EXCEPT !.human = @ + 1]
    ELSE IF winner = "ai" THEN [sc EXCEPT !.ai = @ + 1]
    ELSE sc

RoundNotice(winner) ==
    IF winner = "human" THEN "round_human"
    ELSE IF winner = "ai" THEN "round_ai"
    ELSE "round_tie"

\* lines 276-283 testing only the human hand for the end of the game
GameNotice_humanEmpty(hc, ac, sc) ==
    IF hc = <<>>
    THEN IF sc.human > sc.ai THEN {"game_human"}
         ELSE IF sc.ai > sc.human THEN {"game_ai"}
         ELSE {"game_tie"}
    ELSE {}

\* lines 276-283: the game result, announced only when both hands are empty
GameNotice(hc, ac, sc) ==
    IF hc = <<>> /\ ac = <<>>
    THEN IF sc.human > sc.ai THEN {"game_human"}
         ELSE IF sc.ai > sc.human THEN {"game_ai"}
         ELSE {"game_tie"}
    ELSE {}

RoundNotices == {"round_human", "round_ai", "round_tie"}
GameNotices == {"game_human", "game_ai", "game_tie"}

\* Phase of section 3: Finished means both hands are empty
Finished == human_cards = <<>> /\ ai_cards = <<>>

----------------------------------------------------------------------------
(* Session state *)

\* lines 60-61 dealing again whenever the human hand is empty
SessionHands_redeal(hc, ac, d) ==
    IF hc = <<>> THEN <<deal_cards(d).human, deal_cards(d).ai>> ELSE <<hc, ac>>

\* lines 60-61 dealing again once both hands are empty
SessionHands_redealBoth(hc, ac, d) ==
    IF hc = <<>> /\ ac = <<>> THEN <<deal_cards(d).human, deal_cards(d).ai>> ELSE <<hc, ac>>

\* lines 60-61 on a rerun: the key is present, the hands are kept
SessionHands(hc, ac, d) == <<hc, ac>>

\* the state the first script run of a session leaves behind (lines 59-65);
\* the camera widget has no image yet, so nothing else runs
Init ==
    /\ deck \in GameDecks
    /\ shuffle_i = 0
    /\ human_cards = deal_cards(deck).human
    /\ ai_cards = deal_cards(deck).ai
    /\ table_cards = <<>>
    /\ scores = [human |-> 0, ai |-> 0]
    /\ pc = "idle"
    /\ recognized_card = NoCard
    /\ ui = {}
    /\ temp_image = NoCard
    /\ session_state = <<>>

----------------------------------------------------------------------------
(* Script runs *)

\* a rerun while the camera widget holds no image (line 242 is false)
RerunNoImage ==
    /\ pc = "idle"
    /\ human_cards' = SessionHands(human_cards, ai_cards, deck)[1]
    /\ ai_cards' = SessionHands(human_cards, ai_cards, deck)[2]
    /\ ui' = {}
    /\ UNCHANGED <<deck, shuffle_i, table_cards, scores, pc, recognized_card>>
    /\ UNCHANGED <<temp_image, session_state>>

\* recognize_card raises (the VLM call fails): the run stops at line 245
RecognizerRaises ==
    /\ pc = "idle"
    /\ human_cards' = SessionHands(human_cards, ai_cards, deck)[1]
    /\ ai_cards' = SessionHands(human_cards, ai_cards, deck)[2]
    /\ ui' = {"exception"}
    /\ UNCHANGED <<deck, shuffle_i, table_cards, scores, pc, recognized_card>>
    /\ UNCHANGED <<temp_image, session_state>>

\* lines 248-252 testing the label against CARD_VALUES instead of the hand:
\* list.remove raises ValueError for a card value that is not held
RunWithImage_anyCardValue(label) ==
    /\ pc = "idle"
    /\ IF label \in Range(human_cards)
       THEN /\ human_cards' = Remove(human_cards, label)
            /\ recognized_card' = label
            /\ pc' = "ai"
            /\ ui' = {}
       ELSE /\ human_cards' = human_cards
            /\ recognized_card' = NoCard
            /\ pc' = "idle"
            /\ ui' = IF label \in CardSet THEN {"exception"} ELSE {"warn_not_found"}
    /\ UNCHANGED <<deck, shuffle_i, ai_cards, table_cards, scores>>
    /\ UNCHANGED <<temp_image, session_state>>

\* lines 242-256: a run with an image, up to the call of ai_decision.
\* label is what recognize_card returned.
RunWithImage(label) ==
    /\ pc = "idle"
    /\ LET hc == SessionHands(human_cards, ai_cards, deck)[1]
           ac == SessionHands(human_cards, ai_cards, deck)[2]
       IN  IF label \in Range(hc)
           THEN /\ human_cards' = Remove(hc, label)
                /\ ai_cards' = ac
                /\ recognized_card' = label
                /\ pc' = "ai"
                /\ ui' = {}
           ELSE /\ human_cards' = hc
                /\ ai_cards' = ac
                /\ recognized_card' = NoCard
                /\ pc' = "idle"
                /\ ui' = {"warn_not_found"}
    /\ UNCHANGED <<deck, shuffle_i, table_cards, scores>>
    /\ UNCHANGED <<temp_image, session_state>>

\* lines 256-283 with line 273 assigning the record instead of appending it
AfterDecision_overwrite(decisions) ==
    /\ pc = "ai"
    /\ IF decisions = {}
       THEN /\ ui' = {"exception"}
            /\ UNCHANGED <<ai_cards, scores, table_cards>>
       ELSE \E d \in decisions :
            IF d.card \notin Range(ai_cards)
            THEN /\ ui' = {"exception"} \cup ({d.note} \ {"none"})
                 /\ UNCHANGED <<ai_cards, scores, table_cards>>
            ELSE LET ai_card == d.card
                     human_value == Index(CARD_VALUES, recognized_card)
                     ai_value == Index(CARD_VALUES, ai_card)
                     winner == RoundWinner(human_value, ai_value)
                 IN  /\ ai_cards' = Remove(ai_cards, ai_card)
                     /\ scores' = AddWin(scores, winner)
                     /\ table_cards' = <<(<<recognized_card, ai_card>>)>>
                     /\ ui' = ({d.note} \ {"none"}) \cup {RoundNotice(winner)}
                              \cup GameNotice(human_cards, ai_cards', scores')
    /\ pc' = "idle"
    /\ recognized_card' = NoCard
    /\ UNCHANGED <<deck, shuffle_i, human_cards>>
    /\ UNCHANGED <<temp_image, session_state>>

\* lines 256-283 once ai_decision has a set of cards it may return:
\* remove the agent's card, score the round, record it, check for the end
AfterDecision(decisions) ==
    /\ pc = "ai"
    /\ IF decisions = {}
       THEN \* random.choice of an empty hand raises IndexError
            /\ ui' = {"exception"}
            /\ UNCHANGED <<ai_cards, scores, table_cards>>
       ELSE \E d \in decisions :
            IF d.card \notin Range(ai_cards)
            THEN \* list.remove raises ValueError (line 257)
                 /\ ui' = {"exception"} \cup ({d.note} \ {"none"})
                 /\ UNCHANGED <<ai_cards, scores, table_cards>>
            ELSE LET ai_card == d.card
                     human_value == Index(CARD_VALUES, recognized_card)
                     ai_value == Index(CARD_VALUES, ai_card)
                     winner == RoundWinner(human_value, ai_value)
                 IN  /\ ai_cards' = Remove(ai_cards, ai_card)
                     /\ scores' = AddWin(scores, winner)
                     /\ table_cards' = Append(table_cards, <<recognized_card, ai_card>>)
                     /\ ui' = ({d.note} \ {"none"}) \cup {RoundNotice(winner)}
                              \cup GameNotice(human_cards, ai_cards', scores')
    /\ pc' = "idle"
    /\ recognized_card' = NoCard
    /\ UNCHANGED <<deck, shuffle_i, human_cards>>
    /\ UNCHANGED <<temp_image, session_state>>

\* lines 176-283: the reply full_response has been streamed completely;
\* ai_decision extracts the card and the run resolves the round
AgentReturns(full_response) == AfterDecision(ai_decision(full_response, ai_cards))

\* the call of the language model raises (lines 156-174 are outside the try
\* block): Streamlit shows the exception and the run ends
AgentCallRaises ==
    /\ pc = "ai"
    /\ pc' = "idle"
    /\ recognized_card' = NoCard
    /\ ui' = {"exception"}
    /\ UNCHANGED <<deck, shuffle_i, human_cards, ai_cards, table_cards, scores>>
    /\ UNCHANGED <<temp_image, session_state>>

\* the run is stopped while the reply is streaming (a widget interaction
\* makes Streamlit abandon the run at the next st call, line 170)
RunAborted ==
    /\ pc = "ai"
    /\ pc' = "idle"
    /\ recognized_card' = NoCard
    /\ ui' = {}
    /\ UNCHANGED <<deck, shuffle_i, human_cards, ai_cards, table_cards, scores>>
    /\ UNCHANGED <<temp_image, session_state>>

RecognizerLabels == CardSet \cup NonEnumLabels

Submit == \E label \in RecognizerLabels : RunWithImage(label)
\* the steps of \E full_response \in Replies : AgentReturns(full_response),
\* with replies that lead to the same decision taken together
Reply == AfterDecision(UNION {ai_decision(full_response, ai_cards) : full_response \in Replies})

Next ==
    \/ RerunNoImage
    \/ RecognizerRaises
    \/ Submit
    \/ Reply
    \/ AgentCallRaises
    \/ RunAborted

Spec == Init /\ [][Next]_vars

----------------------------------------------------------------------------
(* deal_cards on its own: random.shuffle as the swaps it performs *)

InitDeal ==
    /\ deck = CARD_VALUES
    /\ shuffle_i = Len(CARD_VALUES)
    /\ human_cards = <<>>
    /\ ai_cards = <<>>
    /\ table_cards = <<>>
    /\ scores = [human |-> 0, ai |-> 0]
    /\ pc = "shuffle"
    /\ recognized_card = NoCard
    /\ ui = {}
    /\ temp_image = NoCard
    /\ session_state = <<>>

\* random.shuffle (line 47): for i from the last position down to the
\* second, swap position i with a position j <= i
ShuffleStep ==
    /\ pc = "shuffle"
    /\ shuffle_i >= 2
    /\ \E j \in 1..shuffle_i :
          /\ j >= shuffle_i - MaxSwapDist
          /\ deck' = Swap(deck, shuffle_i, j)
    /\ shuffle_i' = shuffle_i - 1
    /\ UNCHANGED <<human_cards, ai_cards, table_cards, scores, pc, recognized_card, ui>>
    /\ UNCHANGED <<temp_image, session_state>>

\* lines 50-65: slice, verify, store the hands in the session state
DealCards ==
    /\ pc = "shuffle"
    /\ shuffle_i = 1
    /\ LET dealt == deal_cards(deck)
       IN  IF dealt.ok
           THEN /\ human_cards' = dealt.human
                /\ ai_cards' = dealt.ai
                /\ pc' = "idle"
           ELSE /\ pc' = "ValueError"
                /\ UNCHANGED <<human_cards, ai_cards>>
    /\ shuffle_i' = 0
    /\ UNCHANGED <<deck, table_cards, scores, recognized_card, ui>>
    /\ UNCHANGED <<temp_image, session_state>>

NextDeal == ShuffleStep \/ DealCards

SpecDeal == InitDeal /\ [][NextDeal]_vars

----------------------------------------------------------------------------
(* The game when every call of the language model returns and the human    *)
(* keeps presenting cards of their hand *)

ValidSubmit == \E label \in Range(human_cards) : RunWithImage(label)

\* every call of the language model returns some reply
ReplyLive == \E full_response \in Replies : AgentReturns(full_response)

NextLive ==
    \/ RerunNoImage
    \/ RecognizerRaises
    \/ Submit
    \/ ReplyLive

SpecLive == Init /\ [][NextLive]_vars /\ WF_vars(ValidSubmit) /\ WF_vars(ReplyLive)

----------------------------------------------------------------------------
(* Two sessions of the application in one server process. Streamlit runs  *)
(* the script of each session in a thread of its own, with a session      *)
(* state of its own; the path of line 106 is the same for all of them.    *)

Sessions == {"A", "B"}

\* the card values shown in the photographs a session may present
Images == {CARD_VALUES[i] : i \in 1..NumImages}

\* lines 59-65 for a new session whose shuffle gave the deck d
NewSession(d) ==
    [human_cards |-> deal_cards(d).human,
     ai_cards |-> deal_cards(d).ai,
     table_cards |-> <<>>,
     scores |-> [human |-> 0, ai |-> 0],
     pc |-> "idle",
     image |-> NoCard,
     sent |-> NoCard,
     recognized_card |-> NoCard,
     ui |-> {}]

InitTwo ==
    /\ deck \in GameDecks
    /\ shuffle_i = 0
    /\ human_cards = <<>>
    /\ ai_cards = <<>>
    /\ table_cards = <<>>
    /\ scores = [human |-> 0, ai |-> 0]
    /\ pc = "idle"
    /\ recognized_card = NoCard
    /\ ui = {}
    /\ temp_image = NoCard
    /\ session_state \in [Sessions -> {NewSession(d) : d \in GameDecks}]

OneSession == <<deck, shuffle_i, human_cards, ai_cards, table_cards, scores,
                pc, recognized_card, ui>>

\* lines 242-245, 101-107: a run of session s with a photograph showing the
\* card `shown`; recognize_card saves it to the shared path
SaveImage(s, shown) ==
    /\ session_state[s].pc = "idle"
    /\ Len(session_state[s].human_cards) > HandSize - MaxSessionRounds
    /\ temp_image' = shown
    /\ session_state' = [session_state EXCEPT ![s] =
                            [@ EXCEPT !.pc = "saved", !.image = shown, !.ui = {}]]
    /\ UNCHANGED OneSession

\* lines 109-110, 120: the invoker is given the path, not the image, and
\* reads the file when the request is built: it gets what the file holds then
AddImage(s) ==
    /\ session_state[s].pc = "saved"
    /\ session_state' = [session_state EXCEPT ![s] =
                            [@ EXCEPT !.pc = "vlm", !.sent = temp_image]]
    /\ UNCHANGED <<temp_image>>
    /\ UNCHANGED OneSession

\* lines 120-122, 246-256: the recognizer answered `label`
Recognized(s, label) ==
    /\ session_state[s].pc = "vlm"
    /\ session_state' = [session_state EXCEPT ![s] =
          IF label \in Range(@.human_cards)
          THEN [@ EXCEPT !.human_cards = Remove(@, label),
                         !.recognized_card = label,
                         !.pc = "ai",
                         !.image = NoCard,
                         !.sent = NoCard]
          ELSE [@ EXCEPT !.ui = {"warn_not_found"},
                         !.pc = "idle",
                         !.image = NoCard,
                         !.sent = NoCard]]
    /\ UNCHANGED <<temp_image>>
    /\ UNCHANGED OneSession

\* line 120 raises: the run of session s stops there
VLMCallRaises(s) ==
    /\ session_state[s].pc = "vlm"
    /\ session_state' = [session_state EXCEPT ![s] =
          [@ EXCEPT !.ui = {"exception"}, !.pc = "idle",
                    !.image = NoCard, !.sent = NoCard]]
    /\ UNCHANGED <<temp_image>>
    /\ UNCHANGED OneSession

\* lines 256-283 in session s for one of the cards ai_decision may return
Resolved(st, d) ==
    LET ai_card == d.card
        winner == RoundWinner(Index(CARD_VALUES, st.recognized_card),
                              Index(CARD_VALUES, ai_card))
        ac == Remove(st.ai_cards, ai_card)
        sc == AddWin(st.scores, winner)
    IN  [st EXCEPT !.ai_cards = ac,
                   !.scores = sc,
                   !.table_cards = Append(@, <<st.recognized_card, ai_card>>),
                   !.ui = ({d.note} \ {"none"}) \cup {RoundNotice(winner)}
                          \cup GameNotice(st.human_cards, ac, sc),
                   !.pc = "idle",
                   !.recognized_card = NoCard]

SessionReply(s) ==
    /\ session_state[s].pc = "ai"
    /\ \E full_response \in Replies :
       \E d \in ai_decision(full_response, session_state[s].ai_cards) :
          session_state' = [session_state EXCEPT ![s] = Resolved(@, d)]
    /\ UNCHANGED <<temp_image>>
    /\ UNCHANGED OneSession

\* lines 156-174 raise, or the run is stopped while the reply streams
SessionCallFails(s, notice) ==
    /\ session_state[s].pc = "ai"
    /\ session_state' = [session_state EXCEPT ![s] =
          [@ EXCEPT !.ui = notice, !.pc = "idle", !.recognized_card = NoCard]]
    /\ UNCHANGED <<temp_image>>
    /\ UNCHANGED OneSession

\* a rerun of session s while its camera widget holds no image
SessionRerun(s) ==
    /\ session_state[s].pc = "idle"
    /\ session_state' = [session_state EXCEPT ![s] = [@ EXCEPT !.ui = {}]]
    /\ UNCHANGED <<temp_image>>
    /\ UNCHANGED OneSession

NextTwo ==
    \/ \E s \in Sessions, shown \in Images : SaveImage(s, shown)
    \/ \E s \in Sessions : AddImage(s)
    \/ \E s \in Sessions, label \in RecognizerLabels : Recognized(s, label)
    \/ \E s \in Sessions : VLMCallRaises(s)
    \/ \E s \in Sessions : SessionReply(s)
    \/ \E s \in Sessions, notice \in {{"exception"}, {}} : SessionCallFails(s, notice)
    \/ \E s \in Sessions : SessionRerun(s)

SpecTwo == InitTwo /\ [][NextTwo]_vars

----------------------------------------------------------------------------
(* Claims *)

Distinct(s) == Cardinality(Range(s)) = Len(s)

\* the fixed order 2<3<4<5<6<7<8<9<J<Q<K<A
Rank(c) == CHOOSE i \in 1..12 : <<"2", "3", "4", "5", "6", "7", "8", "9", "J", "Q", "K", "A">>[i] = c

\* C1: every deal produced by deal_cards gives each player exactly 5
\* pairwise distinct card values, the two hands share no value, and 10
\* distinct values are dealt in all (checked under SpecDeal).
C1_DealDisjoint ==
    pc = "idle" =>
        /\ Len(human_cards) = 5 /\ Distinct(human_cards)
        /\ Len(ai_cards) = 5 /\ Distinct(ai_cards)
        /\ Range(human_cards) \cap Range(ai_cards) = {}
        /\ Cardinality(Range(human_cards) \cup Range(ai_cards)) = 10
        /\ Cardinality(CardSet \ (Range(human_cards) \cup Range(ai_cards))) = 2

\* a deal of a deck that the shuffle has really permuted
C1_Witness ==
    /\ pc = "idle" /\ shuffle_i = 0
    /\ deck # CARD_VALUES
    /\ deck[1] # "2" /\ deck[12] # "A"
    /\ Len(human_cards) = 5

\* a rejected submission: nothing of the game has changed, the not-found
\* warning is the only notice, nothing was raised, no agent call was started
RejectedUnchanged ==
    /\ human_cards' = human_cards
    /\ ai_cards' = ai_cards
    /\ table_cards' = table_cards
    /\ scores' = scores
    /\ ui' = {"warn_not_found"}
    /\ pc' = "idle"
    /\ recognized_card' = NoCard

\* C2: a run whose recognized label is not in the human hand (including a
\* label that is no card value) changes neither hand, nor the history, nor
\* the scores; it emits exactly the not-found warning, raises nothing, does
\* not call the agent, and leaves every card of the hand acceptable.
\* (Every step is a rejection as described, or is not the run of any label
\* outside the hand.)
C2_RejectedUnchanged ==
    [][pc = "idle" =>
          \/ RejectedUnchanged
          \/ \A label \in RecognizerLabels \ Range(human_cards) : ~RunWithImage(label)]_vars

\* a rejection in the middle of a game, with cards still to play
C2_Witness ==
    /\ ui = {"warn_not_found"}
    /\ pc = "idle"
    /\ Len(table_cards) >= 1
    /\ human_cards # <<>>

\* what a normally resolved round with agent card c looks like
ResolvedWith(c) ==
    /\ c \in Range(ai_cards)
    /\ ai_cards' = Remove(ai_cards, c)
    /\ Len(ai_cards') = Len(ai_cards) - 1
    /\ c \notin Range(ai_cards')
    /\ table_cards' = Append(table_cards, <<recognized_card, c>>)
    /\ scores'.human + scores'.ai <= scores.human + scores.ai + 1
    /\ (Rank(recognized_card) > Rank(c) => scores' = [scores EXCEPT !.human = @ + 1])
    /\ (Rank(c) > Rank(recognized_card) => scores' = [scores EXCEPT !.ai = @ + 1])
    /\ ui' \cap RoundNotices # {}
    /\ "exception" \notin ui'
    /\ pc' = "idle"

\* C3: a reply with no decodable decision, without the card field, or naming
\* a card the agent does not hold never raises: some card of the agent's
\* current hand is played, removed from that hand, scored and recorded.
\* (Every step of a run in flight is such a resolution, or is not the return
\* of any malformed reply.)
C3_MalformedFallsBack ==
    [][pc = "ai" =>
          \/ \E c \in Range(ai_cards) : ResolvedWith(c)
          \/ /\ \A r \in BrokenReplies : ~AgentReturns(r)
             /\ \A shape \in ReplyShapes : \A c0 \in ReplyCards \ Range(ai_cards) :
                   ~AgentReturns(CardReply(shape, c0))]_vars

\* a round was resolved through the fallback
C3_Witness ==
    /\ ui \cap {"err_parse", "warn_ai_invalid"} # {}
    /\ ui \cap RoundNotices # {}
    /\ "exception" \notin ui
    /\ Len(table_cards) >= 1

\* C4: a resolved round adds exactly 1 to the score of the side whose card
\* is strictly greater in the order 2<...<A and leaves the other score
\* alone; equal cards change nothing; no other step changes a score and no
\* score ever decreases.
C4_ScoreFollowsOrder ==
    [][/\ scores'.human >= scores.human
       /\ scores'.ai >= scores.ai
       /\ (table_cards' = table_cards => scores' = scores)
       /\ (table_cards' # table_cards =>
             LET rec == table_cards'[Len(table_cards')]
                 h == Rank(rec[1])
                 a == Rank(rec[2])
             IN  /\ Len(table_cards') = Len(table_cards) + 1
                 /\ (h > a => scores'.human = scores.human + 1 /\ scores'.ai = scores.ai)
                 /\ (a > h => scores'.ai = scores.ai + 1 /\ scores'.human = scores.human)
                 /\ (a = h => scores' = scores))]_vars

\* both sides have won rounds
C4_Witness ==
    /\ scores.human >= 1
    /\ scores.ai >= 1
    /\ Len(table_cards) = scores.human + scores.ai

\* C5: once both hands are empty they are empty in every later state of the
\* session.
C5_FinishedMonotone == [][Finished => Finished']_vars

\* a finished game that has seen a further submission
C5_Witness ==
    /\ Finished
    /\ "warn_not_found" \in ui
    /\ Len(table_cards) = 5

FinalOutcome(sc) ==
    IF sc.human > sc.ai THEN "game_human"
    ELSE IF sc.ai > sc.human THEN "game_ai"
    ELSE "game_tie"

\* C6: the run that resolves the round emptying both hands announces exactly
\* one game result, the one given by comparing the two final scores; no
\* other run announces a game result.
C6_OutcomeFromScore ==
    [][LET emptying == /\ table_cards' # table_cards
                       /\ human_cards' = <<>>
                       /\ ai_cards' = <<>>
       IN  /\ (emptying => ui' \cap GameNotices = {FinalOutcome(scores')})
           /\ (~emptying => ui' \cap GameNotices = {})]_vars

\* the human has won a game
C6_Witness ==
    /\ "game_human" \in ui
    /\ Finished
    /\ scores.human > scores.ai

\* C7: between runs every card that has left a hand is part of a recorded
\* round, so an agent call that did not complete leaves the hands, history
\* and scores as they were before the round.
C7_NoPartialRound ==
    pc = "idle" =>
        /\ Len(human_cards) + Len(table_cards) = 5
        /\ Len(ai_cards) + Len(table_cards) = 5

\* C8: while the agent call is in flight the accepted human card is still in
\* the human hand.
C8_StagedNotRemoved ==
    pc = "ai" => recognized_card \in Range(human_cards)

\* C9: between rounds the two hands have the same length.
C9_HandsSameLength ==
    pc = "idle" => Len(human_cards) = Len(ai_cards)

\* C10: when the human keeps presenting cards of their hand and every agent
\* call returns, the game reaches Finished, and at that moment, and only
\* then, the history holds exactly 5 records.
C10_FinishesInFiveRounds ==
    /\ <>(Finished /\ Len(table_cards) = 5)
    /\ [](Len(table_cards) <= 5)
    /\ [](pc = "idle" => (Finished <=> Len(table_cards) = 5))

\* a game finished after 5 rounds, all of them won by the agent
C10_Witness ==
    /\ Finished
    /\ Len(table_cards) = 5
    /\ scores.ai = 5
    /\ ui \cap GameNotices # {}

\* C11: once both hands are empty, no step of the session - a submission of
\* any label, a rerun, a failing recognizer - changes a hand, the history
\* or a score, and no new deal happens.
C11_FinishedImmutable ==
    [][Finished =>
          /\ human_cards' = human_cards
          /\ ai_cards' = ai_cards
          /\ table_cards' = table_cards
          /\ scores' = scores
          /\ deck' = deck
          /\ pc' = "idle"]_vars

\* a finished game that has been rerun without an image
C11_Witness ==
    /\ Finished
    /\ ui = {}
    /\ pc = "idle"
    /\ Len(table_cards) = 5

\* C12: with two sessions running, the image handed to the card recognizer
\* for a session is the image that session presented, whatever the other
\* session does in between.
C12_SessionsIsolated ==
    \A s \in Sessions :
        session_state[s].pc = "vlm" => session_state[s].sent = session_state[s].image

LastRecord(t) == t[Len(t)]

\* C13: each phase of a round shrinks exactly one hand by one card: the
\* accepted submission takes the recognized card, and only it, out of the
\* human hand; the resolution takes the agent's played card, and only it,
\* out of the agent hand; when the resolution completes the human's played
\* card is out of the human hand too; no other step changes a hand.
C13_OneHandPerPhase ==
    [][LET accepted == pc = "idle" /\ pc' = "ai"
           resolved == table_cards' # table_cards
       IN  /\ accepted =>
                 /\ recognized_card' \in Range(human_cards)
                 /\ Range(human_cards') = Range(human_cards) \ {recognized_card'}
                 /\ Len(human_cards') = Len(human_cards) - 1
                 /\ ai_cards' = ai_cards
           /\ resolved =>
                 /\ pc = "ai"
                 /\ LastRecord(table_cards')[1] = recognized_card
                 /\ recognized_card \notin Range(human_cards')
                 /\ human_cards' = human_cards
                 /\ LastRecord(table_cards')[2] \in Range(ai_cards)
                 /\ Range(ai_cards') = Range(ai_cards) \ {LastRecord(table_cards')[2]}
                 /\ Len(ai_cards') = Len(ai_cards) - 1
           /\ (~accepted /\ ~resolved) =>
                 /\ human_cards' = human_cards
                 /\ ai_cards' = ai_cards]_vars

\* one round has been played from the deal
C13_Witness ==
    /\ pc = "idle"
    /\ Len(table_cards) = 1
    /\ Len(human_cards) = 4
    /\ Len(ai_cards) = 4

\* C14: between rounds, hands of different length stop the session: no step
\* taken from such a state removes a card, changes a score or appends to the
\* history.
C14_DesyncStops ==
    [][(pc = "idle" /\ Len(human_cards) # Len(ai_cards)) =>
          /\ human_cards' = human_cards
          /\ ai_cards' = ai_cards
          /\ table_cards' = table_cards
          /\ scores' = scores]_vars

\* C15: the history only grows, by one record per resolved round; the record
\* holds the human card taken at the submission and the agent card taken at
\* the resolution; earlier records stay as they are; a step that starts
\* between runs (a rejection among them) appends nothing.
C15_HistoryAppendOnly ==
    [][\/ table_cards' = table_cards
       \/ /\ pc = "ai"
          /\ Len(table_cards') = Len(table_cards) + 1
          /\ SubSeq(table_cards', 1, Len(table_cards)) = table_cards
          /\ LastRecord(table_cards')[1] = recognized_card
          /\ LastRecord(table_cards')[1] \notin Range(human_cards')
          /\ LastRecord(table_cards')[2] \in Range(ai_cards) \ Range(ai_cards')]_vars

\* a rejection after three recorded rounds
C15_Witness ==
    /\ Len(table_cards) = 3
    /\ ui = {"warn_not_found"}
    /\ Len(ai_cards) = 2

HumanPlayed == {table_cards[i][1] : i \in 1..Len(table_cards)}
AgentPlayed == {table_cards[i][2] : i \in 1..Len(table_cards)}

\* C16: between rounds each player's hand together with that player's cards
\* in the history is exactly the dealt hand, each card once.
C16_CardsConserved ==
    pc = "idle" =>
        /\ Range(human_cards) \cup HumanPlayed = Range(deal_cards(deck).human)
        /\ Range(human_cards) \cap HumanPlayed = {}
        /\ Cardinality(HumanPlayed) = Len(table_cards)
        /\ Range(ai_cards) \cup AgentPlayed = Range(deal_cards(deck).ai)
        /\ Range(ai_cards) \cap AgentPlayed = {}
        /\ Cardinality(AgentPlayed) = Len(table_cards)

\* C17: no recorded round is a tie, so between rounds the two scores add up
\* to the number of records in the history.
C17_NoTieRound ==
    pc = "idle" =>
        /\ scores.human + scores.ai = Len(table_cards)
        /\ \A i \in 1..Len(table_cards) : table_cards[i][1] # table_cards[i][2]
        /\ "round_tie" \notin ui

\* a complete game that the agent won 3 to 2
C17_Witness ==
    /\ pc = "idle"
    /\ Len(table_cards) = 5
    /\ scores.human = 2
    /\ scores.ai = 3

\* C18: a finished game has 5 records and scores that add up to 5, hence
\* differ; the tie-game notice is never emitted.
C18_NoTieGame ==
    /\ "game_tie" \notin ui
    /\ Finished =>
          /\ Len(table_cards) = 5
          /\ scores.human + scores.ai = 5
          /\ scores.human # scores.ai

\* the agent has just won a game 4 to 1
C18_Witness ==
    /\ Finished
    /\ "game_ai" \in ui
    /\ scores.human = 1
    /\ scores.ai = 4

\* C19: the agent hand never has fewer cards than the human hand; while the
\* agent call is in flight the agent hand is not empty, and for every reply
\* ai_decision has a card to return and each such card is in the agent hand.
C19_AgentHandSuffices ==
    /\ Len(ai_cards) >= Len(human_cards)
    /\ pc = "ai" =>
          /\ ai_cards # <<>>
          /\ \A full_response \in Replies :
                /\ ai_decision(full_response, ai_cards) # {}
                /\ \A d \in ai_decision(full_response, ai_cards) : d.card \in Range(ai_cards)

\* the human's last card was accepted after an earlier agent call had failed
C19_Witness ==
    /\ pc = "ai"
    /\ human_cards = <<>>
    /\ Len(ai_cards) = 2
    /\ Len(table_cards) = 3

====
